---- MODULE Spec2Model ----
(***************************************************************************)
(* UniSphere (App component): the in-memory entity store (courses, notes,  *)
(* materials), the navigation / modal state that decides which handlers    *)
(* are reachable, the load and save effects over localStorage, and the two *)
(* asynchronous AI requests.                                               *)
(***************************************************************************)
EXTENDS Integers, Sequences, FiniteSets, TLC

(* ---------------------------- bounds ----------------------------------- *)
MaxCourses == 2
MaxNotes == 3
MaxMaterials == 2
UiMaxCourses == 2
UiMaxNotes == 1
UiMaxMaterials == 1
MaxRequests == 3
MaxMoveIndex == 3

(* ------------------------ values of the inputs ------------------------- *)
Null == 0
Undefined == -1
NoIndex == 0
THEME_COLOR == "bg-blue-600"
FailedSummary == "Failed to generate summary."
(* texts are sequences of characters *)
Names == {<<"a">>}
Descriptions == {<<>>}
Titles == {<<"t">>}
Contents == {<<"x">>}
Urls == {<<"u">>}
MaterialTypes == {"Link"}
Times == {1}
(* what an edit types over a title, and the clock at that time *)
EditedTitles == {<<"e">>}
EditTimes == {2}

(* what is typed in the search box *)
UiQueries == {<<>>, <<"A">>, <<"b">>}
Letters == {"a", "A", "b", "B", " "}
MaxQueryLen == 3
Queries == UNION {[1..n -> Letters] : n \in 0..MaxQueryLen}
FilterNames == {<<"a">>, <<"A", "b">>, <<"a", " ", "b">>}
FilterDescriptions == {<<>>, <<"B", "a">>}
FilterMaxCourses == 2

CourseKeys == <<"id", "name", "description", "color", "createdAt">>
NoteKeys == <<"id", "courseId", "title", "content", "updatedAt">>
MaterialKeys == <<"id", "courseId", "noteId", "name", "url", "type", "addedAt">>
OptionalKeys == {"noteId"}

VARIABLES courses, notes, materials, currentView, selectedCourseId, searchQuery,
          isNoteModalOpen, activeNote, isMaterialModalOpen, targetNoteId,
          aiLoading, aiSummary, studyQuestions,
          storage, uuid, phase, pendingSummary, pendingQuestions, issued,
          lastOp, prev

uiVars == <<currentView, selectedCourseId, searchQuery, isNoteModalOpen, activeNote,
            isMaterialModalOpen, targetNoteId>>
aiVars == <<aiLoading, aiSummary, studyQuestions, pendingSummary,
            pendingQuestions, issued>>
vars == <<courses, notes, materials, currentView, selectedCourseId, searchQuery,
          isNoteModalOpen, activeNote, isMaterialModalOpen, targetNoteId,
          aiLoading, aiSummary, studyQuestions,
          storage, uuid, phase, pendingSummary, pendingQuestions, issued,
          lastOp, prev>>

(* ------------------------- array helpers ------------------------------- *)
(* Array.prototype.filter is SelectSeq *)

Get(obj, k) == IF k \in DOMAIN obj THEN obj[k] ELSE Undefined

Ids(seq) == {seq[i].id : i \in DOMAIN seq}

(* ------------------------- strings ------------------------------------ *)
(* String.prototype.toLowerCase, trim and includes over the characters     *)
(* the inputs are made of                                                  *)
LowerChar(ch) == IF ch = "A" THEN "a" ELSE IF ch = "B" THEN "b" ELSE ch

toLowerCase(str) == [i \in DOMAIN str |-> LowerChar(str[i])]

WhiteSpace == {" "}

RECURSIVE trimStart(_)
trimStart(str) ==
    IF str # <<>> /\ Head(str) \in WhiteSpace THEN trimStart(Tail(str)) ELSE str

RECURSIVE trimEnd(_)
trimEnd(str) ==
    IF str # <<>> /\ str[Len(str)] \in WhiteSpace
    THEN trimEnd(SubSeq(str, 1, Len(str) - 1))
    ELSE str

trim(str) == trimEnd(trimStart(str))

includes(str, search) ==
    \E start \in 0..(Len(str) - Len(search)) :
       SubSeq(str, start + 1, start + Len(search)) = search

(* ------------------------- JSON.stringify / JSON.parse ------------------ *)
(* A JSON text is kept as its syntax: an array of objects, each object the *)
(* sequence of its <<key, value>> members in property order.  A property   *)
(* whose value is undefined is not written.                                *)
Written(obj, k) == k \in DOMAIN obj /\ ~(k \in OptionalKeys /\ obj[k] = Undefined)

RECURSIVE Members(_, _)
Members(obj, keys) ==
    IF keys = <<>> THEN <<>>
    ELSE (IF Written(obj, Head(keys)) THEN <<(<<Head(keys), obj[Head(keys)]>>)>> ELSE <<>>)
         \o Members(obj, Tail(keys))

Stringify(seq, keys) == [i \in DOMAIN seq |-> Members(seq[i], keys)]

ValueOf(members, k) == members[CHOOSE i \in DOMAIN members : members[i][1] = k][2]

ParseObject(members) ==
    [k \in {members[i][1] : i \in DOMAIN members} |-> ValueOf(members, k)]

Parse(text) == [i \in DOMAIN text |-> ParseObject(text[i])]

(* localStorage: getItem gives null for a key never written *)
Missing == [present |-> FALSE]
Item(text) == [present |-> TRUE, text |-> text]

(* an item whose text is not JSON: JSON.parse throws a SyntaxError *)
Malformed == [present |-> TRUE, text |-> <<>>, syntaxError |-> TRUE]

Throws(item) == "syntaxError" \in DOMAIN item

(* the load effect throws when one of the items it parses is malformed *)
LoadThrows(st) ==
    Throws(st.uni_courses) \/ Throws(st.uni_notes) \/ Throws(st.uni_materials)

(* save effect: the three setItem calls *)
SaveEffect(c, n, m) ==
    [uni_courses |-> Item(Stringify(c, CourseKeys)),
     uni_notes |-> Item(Stringify(n, NoteKeys)),
     uni_materials |-> Item(Stringify(m, MaterialKeys))]

(* load effect: if (saved) setX(JSON.parse(saved)); a serialized array is  *)
(* never the empty string, so a present item is truthy                     *)
Loaded(item) == IF item.present THEN Parse(item.text) ELSE <<>>

(* variant: only the save effect of the first render *)
MountStorageFirstRender(st) == SaveEffect(<<>>, <<>>, <<>>)

(* mount: load effect, save effect of the first render (empty             *)
(* collections), then the render with the loaded collections and its save  *)
(* effect when a setter was called                                         *)
MountStorage(st) ==
    LET first == SaveEffect(<<>>, <<>>, <<>>)
        anySet == st.uni_courses.present \/ st.uni_notes.present \/ st.uni_materials.present
    IN IF anySet
       THEN SaveEffect(Loaded(st.uni_courses), Loaded(st.uni_notes), Loaded(st.uni_materials))
       ELSE first

(* mount when the load effect throws.  The save effect is the next effect  *)
(* of the same component and the code does nothing to keep it from running *)
(* with the initial empty collections: React 17 runs every effect of the   *)
(* commit in its own try block, so the save effect runs; React 16, 18 and  *)
(* 19 abandon the remaining effects of a component once one has thrown.    *)
(* Either way the error unmounts the application.                         *)
FailedMountStorage(st) == {st, SaveEffect(<<>>, <<>>, <<>>)}

(* ------------------------- derived views ------------------------------- *)
(* variant: the query is trimmed but not lower-cased *)
cleanQueryCaseKept(query) == trim(query)

cleanQuery(query) == trim(toLowerCase(query))

(* filteredCourses for a course list and a search query *)
FilterCourses(cs, query) ==
    LET Match(c) == \/ includes(toLowerCase(c.name), cleanQuery(query))
                    \/ includes(toLowerCase(c.description), cleanQuery(query))
    IN IF cleanQuery(query) = <<>> THEN cs ELSE SelectSeq(cs, Match)

filteredCourses == FilterCourses(courses, searchQuery)

(* selectedCourse: courses.find(c => c.id === selectedCourseId) is defined *)
selectedCourse == \E i \in DOMAIN courses : courses[i].id = selectedCourseId

NotesOf(ns, cid) == LET Keep(n) == n.courseId = cid IN SelectSeq(ns, Keep)

currentCourseNotes == NotesOf(notes, selectedCourseId)

MaterialsOfNote(ms, nid) == LET Keep(m) == Get(m, "noteId") = nid IN SelectSeq(ms, Keep)

(* ------------------------- store operations ---------------------------- *)
(* handleMoveNote: positions are 1-based here, relativeIndex is 0-based as *)
(* in the code; NoIndex stands for the undefined an out-of-range read gives *)
RECURSIVE IndicesFrom(_, _, _)
IndicesFrom(ns, cid, i) ==
    IF i > Len(ns) THEN <<>>
    ELSE (IF ns[i].courseId = cid THEN <<i>> ELSE <<>>) \o IndicesFrom(ns, cid, i + 1)

courseNotesIndices(ns, cid) == IndicesFrom(ns, cid, 1)

IndexAt(idx, k) == IF k + 1 \in DOMAIN idx THEN idx[k + 1] ELSE NoIndex

HoleNote == [hole |-> TRUE]

(* activeNote === null *)
NoNote == [none |-> TRUE]

targetGlobalIndex(ns, cid, relativeIndex, direction) ==
    IF direction = "up"
    THEN IndexAt(courseNotesIndices(ns, cid), relativeIndex - 1)
    ELSE IndexAt(courseNotesIndices(ns, cid), relativeIndex + 1)

(* variant: exchanges the neighbours in the whole note sequence *)
MoveNoteGlobalNeighbour(ns, cid, relativeIndex, direction) ==
    LET globalIndex == IndexAt(courseNotesIndices(ns, cid), relativeIndex)
        target == IF direction = "up" THEN globalIndex - 1 ELSE globalIndex + 1
    IN IF target \notin DOMAIN ns THEN ns
       ELSE [ns EXCEPT ![globalIndex] = ns[target], ![target] = ns[globalIndex]]

MoveNote(ns, cid, relativeIndex, direction) ==
    LET globalIndex == IndexAt(courseNotesIndices(ns, cid), relativeIndex)
        target == targetGlobalIndex(ns, cid, relativeIndex, direction)
    IN IF target = NoIndex THEN ns
       ELSE IF globalIndex = NoIndex
            THEN [ns EXCEPT ![target] = HoleNote]
            ELSE [ns EXCEPT ![globalIndex] = ns[target], ![target] = ns[globalIndex]]

DeleteCourseFrom(cs, id) == LET Keep(c) == c.id # id IN SelectSeq(cs, Keep)

DeleteByCourse(seq, id) == LET Keep(e) == e.courseId # id IN SelectSeq(seq, Keep)

DeleteById(seq, id) == LET Keep(e) == e.id # id IN SelectSeq(seq, Keep)

(* variant: nothing is found to edit, so the entry is added *)
UpdateNoteOrInsert(ns, id, title, content, now) ==
    IF id \in Ids(ns)
    THEN [i \in DOMAIN ns |->
            IF ns[i].id = id
            THEN [ns[i] EXCEPT !.title = title, !.content = content, !.updatedAt = now]
            ELSE ns[i]]
    ELSE Append(ns, [id |-> id, courseId |-> Null, title |-> title, content |-> content,
                     updatedAt |-> now])

(* variant: the edited note is taken out and appended *)
UpdateNoteMoveLast(ns, id, title, content, now) ==
    LET Other(n) == n.id # id
        Hit(n) == n.id = id
        edited == SelectSeq(ns, Hit)
    IN SelectSeq(ns, Other) \o
       [i \in DOMAIN edited |->
           [edited[i] EXCEPT !.title = title, !.content = content, !.updatedAt = now]]

UpdateNote(ns, id, title, content, now) ==
    [i \in DOMAIN ns |->
        IF ns[i].id = id
        THEN [ns[i] EXCEPT !.title = title, !.content = content, !.updatedAt = now]
        ELSE ns[i]]

NewCourse(id, name, description, now) ==
    [id |-> id, name |-> name, description |-> description,
     color |-> THEME_COLOR, createdAt |-> now]

NewNote(id, cid, title, content, now) ==
    [id |-> id, courseId |-> cid, title |-> title, content |-> content, updatedAt |-> now]

NewMaterial(id, cid, target, name, url, type, now) ==
    [id |-> id, courseId |-> cid,
     noteId |-> IF target # Null THEN target ELSE Undefined,
     name |-> name, url |-> url, type |-> type, addedAt |-> now]

(* variant: an id that does not depend on what was issued before *)
repeatedUUID(kind) == 1

(* crypto.randomUUID(): a value never returned before; only equality of    *)
(* ids of the same collection is ever tested, so the n-th id of a          *)
(* collection is n                                                         *)
randomUUID(kind) == uuid[kind] + 1

(* ------------------------- AI service results -------------------------- *)
AiNull == "null"
SummaryTexts == <<"s1", "s2", "s3", "s4", "s5">>
SummaryText(k) == SummaryTexts[k]
QuestionList(k) == <<[question |-> SummaryTexts[k], answer |-> "a"]>>

(* ------------------------- initial state ------------------------------- *)
Snapshot ==
    [courses |-> courses, notes |-> notes, materials |-> materials,
     storage |-> storage, aiLoading |-> aiLoading, aiSummary |-> aiSummary,
     studyQuestions |-> studyQuestions, pendingSummary |-> pendingSummary,
     pendingQuestions |-> pendingQuestions]

InitialUi ==
    /\ currentView = "catalog"
    /\ selectedCourseId = Null
    /\ searchQuery = <<>>
    /\ isNoteModalOpen = FALSE
    /\ activeNote = NoNote
    /\ isMaterialModalOpen = FALSE
    /\ targetNoteId = Null

InitialAi ==
    /\ aiLoading = FALSE
    /\ aiSummary = AiNull
    /\ studyQuestions = <<>>
    /\ pendingSummary = {}
    /\ pendingQuestions = {}
    /\ issued = 0

Init ==
    /\ courses = <<>>
    /\ notes = <<>>
    /\ materials = <<>>
    /\ InitialUi
    /\ InitialAi
    /\ storage = [uni_courses |-> Missing, uni_notes |-> Missing, uni_materials |-> Missing]
    /\ uuid = [course |-> 0, note |-> 0, material |-> 0]
    /\ phase = "boot"
    /\ lastOp = [op |-> "none"]
    /\ prev = [courses |-> <<>>, notes |-> <<>>, materials |-> <<>>,
               storage |-> [uni_courses |-> Missing, uni_notes |-> Missing,
                            uni_materials |-> Missing],
               aiLoading |-> FALSE, aiSummary |-> AiNull, studyQuestions |-> <<>>,
               pendingSummary |-> {}, pendingQuestions |-> {}]

(* ------------------------- render / effects ---------------------------- *)
(* variant: materials left out of the dependency list *)
SaveDepsWithoutMaterials == {"courses", "notes"}

(* dependency list of the save effect *)
SaveDeps == {"courses", "notes", "materials"}

(* the render after a handler that called the setters in `touched` (each   *)
(* with a new array): the save effect runs when one of its dependencies    *)
(* changed                                                                 *)
Commit(c, n, m, touched, op) ==
    /\ courses' = c
    /\ notes' = n
    /\ materials' = m
    /\ storage' = IF touched \cap SaveDeps # {} THEN SaveEffect(c, n, m) ELSE storage
    /\ prev' = Snapshot
    /\ lastOp' = op

(* a handler that called none of the three setters *)
Keep(op) == Commit(courses, notes, materials, {}, op)

Ready == phase = "ready"

(* first mount of the App component *)
Startup ==
    /\ phase = "boot"
    /\ IF LoadThrows(storage)
       THEN /\ phase' = "crashed"
            /\ storage' \in FailedMountStorage(storage)
            /\ lastOp' = [op |-> "startupFailed"]
            /\ UNCHANGED <<courses, notes, materials>>
       ELSE /\ phase' = "ready"
            /\ courses' = Loaded(storage.uni_courses)
            /\ notes' = Loaded(storage.uni_notes)
            /\ materials' = Loaded(storage.uni_materials)
            /\ storage' = MountStorage(storage)
            /\ lastOp' = [op |-> "startup"]
    /\ prev' = Snapshot
    /\ UNCHANGED <<uiVars, aiVars, uuid>>

(* the page is reloaded: every useState starts again from its initial      *)
(* value, pending promises are gone, and the component mounts              *)
Reload ==
    /\ Ready
    /\ courses' = Loaded(storage.uni_courses)
    /\ notes' = Loaded(storage.uni_notes)
    /\ materials' = Loaded(storage.uni_materials)
    /\ storage' = MountStorage(storage)
    /\ currentView' = "catalog"
    /\ selectedCourseId' = Null
    /\ searchQuery' = <<>>
    /\ isNoteModalOpen' = FALSE
    /\ activeNote' = NoNote
    /\ isMaterialModalOpen' = FALSE
    /\ targetNoteId' = Null
    /\ aiLoading' = FALSE
    /\ aiSummary' = AiNull
    /\ studyQuestions' = <<>>
    /\ pendingSummary' = {}
    /\ pendingQuestions' = {}
    /\ prev' = Snapshot
    /\ lastOp' = [op |-> "reload"]
    /\ UNCHANGED <<uuid, phase, issued>>

(* ------------------------- navigation ---------------------------------- *)
(* logo and the two back buttons: setCurrentView('catalog') *)
GoCatalog ==
    /\ Ready
    /\ currentView' = "catalog"
    /\ Keep([op |-> "goCatalog"])
    /\ UNCHANGED <<searchQuery, selectedCourseId, isNoteModalOpen, activeNote, isMaterialModalOpen,
                   targetNoteId, aiVars, uuid, phase>>

OpenAddCourse ==
    /\ Ready
    /\ currentView = "catalog"
    /\ currentView' = "add-course"
    /\ Keep([op |-> "openAddCourse"])
    /\ UNCHANGED <<searchQuery, selectedCourseId, isNoteModalOpen, activeNote, isMaterialModalOpen,
                   targetNoteId, aiVars, uuid, phase>>

(* onChange of the search box *)
SearchStep(query) ==
    /\ searchQuery' = query
    /\ Keep([op |-> "search", query |-> query])
    /\ UNCHANGED <<currentView, selectedCourseId, isNoteModalOpen, activeNote,
                   isMaterialModalOpen, targetNoteId, aiVars, uuid, phase>>

(* the search box of the catalog *)
handleSearchChange ==
    /\ Ready
    /\ currentView = "catalog"
    /\ \E query \in UiQueries : SearchStep(query)

(* click on a course card of the catalog; the cards are those of           *)
(* filteredCourses                                                         *)
SelectCourse ==
    /\ Ready
    /\ currentView = "catalog"
    /\ \E i \in DOMAIN filteredCourses :
          /\ selectedCourseId' = filteredCourses[i].id
          /\ currentView' = "course-detail"
          /\ Keep([op |-> "selectCourse", id |-> filteredCourses[i].id])
    /\ UNCHANGED <<searchQuery, isNoteModalOpen, activeNote, isMaterialModalOpen,
                   targetNoteId, aiVars, uuid, phase>>

(* ------------------------- form validation ----------------------------- *)
(* variant: the input carries no `required` attribute *)
notRequired(value) == TRUE

(* an input with the `required` attribute: the browser does not dispatch   *)
(* the submit event while its value is the empty string                    *)
required(value) == value # <<>>

EmptyText == <<>>

(* ------------------------- store transitions --------------------------- *)
(* The part of each handler that acts on courses, notes and materials,     *)
(* with the UI state the handler reads (selectedCourseId, activeNote,      *)
(* targetNoteId) and the form fields as parameters.                        *)

(* handleAddCourse *)
AddCourseStep(name, description, now) ==
    /\ Commit(courses \o <<NewCourse(randomUUID("course"), name, description, now)>>,
              notes, materials, {"courses"},
              [op |-> "addCourse", id |-> randomUUID("course"), name |-> name])
    /\ uuid' = [uuid EXCEPT !.course = @ + 1]

(* handleDeleteCourse: window.confirm answers either way *)
DeleteCourseStep(id, confirmed) ==
    /\ IF confirmed
       THEN Commit(DeleteCourseFrom(courses, id), DeleteByCourse(notes, id),
                   DeleteByCourse(materials, id), {"courses", "notes", "materials"},
                   [op |-> "deleteCourse", id |-> id])
       ELSE Keep([op |-> "deleteCourseDeclined", id |-> id])
    /\ UNCHANGED uuid

(* handleMoveNote: setNotes is not called when the target index is         *)
(* undefined                                                               *)
MoveNoteStep(selected, relativeIndex, direction) ==
    LET op == [op |-> "moveNote", courseId |-> selected,
               relativeIndex |-> relativeIndex, direction |-> direction]
    IN /\ IF targetGlobalIndex(notes, selected, relativeIndex, direction) = NoIndex
          THEN Keep(op)
          ELSE Commit(courses, MoveNote(notes, selected, relativeIndex, direction),
                      materials, {"notes"}, op)
       /\ UNCHANGED uuid

(* variant: the resources attached to the note are removed with it *)
DeleteNoteCascade(id, confirmed) ==
    /\ IF confirmed
       THEN LET Elsewhere(m) == Get(m, "noteId") # id
            IN Commit(courses, DeleteById(notes, id), SelectSeq(materials, Elsewhere),
                      {"notes", "materials"}, [op |-> "deleteNote", id |-> id])
       ELSE Keep([op |-> "deleteNoteDeclined", id |-> id])
    /\ UNCHANGED uuid

(* "Delete" on a note card: setNotes(notes.filter(n => n.id !== note.id)) *)
DeleteNoteStep(id, confirmed) ==
    /\ IF confirmed
       THEN Commit(courses, DeleteById(notes, id), materials, {"notes"},
                   [op |-> "deleteNote", id |-> id])
       ELSE Keep([op |-> "deleteNoteDeclined", id |-> id])
    /\ UNCHANGED uuid

(* handleSaveNote *)
SaveNoteStep(active, selected, title, content, now) ==
    IF active # NoNote
    THEN /\ Commit(courses, UpdateNote(notes, active.id, title, content, now), materials,
                   {"notes"},
                   [op |-> "updateNote", id |-> active.id, title |-> title,
                    content |-> content, now |-> now])
         /\ UNCHANGED uuid
    ELSE /\ Commit(courses,
                   notes \o <<NewNote(randomUUID("note"), selected, title, content, now)>>,
                   materials, {"notes"},
                   [op |-> "addNote", id |-> randomUUID("note"), courseId |-> selected,
                    title |-> title, content |-> content])
         /\ uuid' = [uuid EXCEPT !.note = @ + 1]

(* handleAddMaterial *)
AddMaterialStep(selected, target, name, url, type, now) ==
    /\ Commit(courses, notes,
              materials \o <<NewMaterial(randomUUID("material"), selected, target,
                                         name, url, type, now)>>,
              {"materials"},
              [op |-> "addMaterial", id |-> randomUUID("material"), courseId |-> selected,
               name |-> name, url |-> url])
    /\ uuid' = [uuid EXCEPT !.material = @ + 1]

(* handleDeleteMaterial *)
DeleteMaterialStep(id) ==
    /\ Commit(courses, notes, DeleteById(materials, id), {"materials"},
              [op |-> "deleteMaterial", id |-> id])
    /\ UNCHANGED uuid

(* ------------------------- the handlers behind the UI ------------------ *)
DetailShown == currentView = "course-detail" /\ selectedCourse

(* submit of the add-course form; the name input is `required` *)
handleAddCourse ==
    /\ Ready
    /\ currentView = "add-course"
    /\ uuid.course < UiMaxCourses
    /\ \E name \in Names \cup {EmptyText}, description \in Descriptions, now \in Times :
          IF required(name)
          THEN /\ AddCourseStep(name, description, now)
               /\ currentView' = "catalog"
          ELSE /\ Keep([op |-> "addCourseBlocked", name |-> name])
               /\ UNCHANGED <<currentView, uuid>>
    /\ UNCHANGED <<searchQuery, selectedCourseId, isNoteModalOpen, activeNote, isMaterialModalOpen,
                   targetNoteId, aiVars, phase>>

(* trash button of a course card *)
handleDeleteCourse ==
    /\ Ready
    /\ currentView = "catalog"
    /\ \E i \in DOMAIN filteredCourses, confirmed \in BOOLEAN :
          DeleteCourseStep(filteredCourses[i].id, confirmed)
    /\ UNCHANGED <<uiVars, aiVars, phase>>

(* "New Entry" *)
OpenNewNote ==
    /\ Ready
    /\ DetailShown
    /\ activeNote' = NoNote
    /\ isNoteModalOpen' = TRUE
    /\ Keep([op |-> "openNewNote"])
    /\ UNCHANGED <<searchQuery, currentView, selectedCourseId, isMaterialModalOpen, targetNoteId,
                   aiVars, uuid, phase>>

(* "Edit" on a note card: the note object of this render is kept *)
OpenEditNote ==
    /\ Ready
    /\ DetailShown
    /\ \E idx \in DOMAIN currentCourseNotes :
          /\ activeNote' = currentCourseNotes[idx]
          /\ Keep([op |-> "openEditNote", id |-> currentCourseNotes[idx].id])
    /\ isNoteModalOpen' = TRUE
    /\ UNCHANGED <<searchQuery, currentView, selectedCourseId, isMaterialModalOpen, targetNoteId,
                   aiVars, uuid, phase>>

(* X and Cancel of the note form *)
CloseNoteModal ==
    /\ Ready
    /\ isNoteModalOpen
    /\ isNoteModalOpen' = FALSE
    /\ Keep([op |-> "closeNoteModal"])
    /\ UNCHANGED <<searchQuery, currentView, selectedCourseId, activeNote, isMaterialModalOpen,
                   targetNoteId, aiVars, uuid, phase>>

(* "Move Up" / "Move Down" on the card at position idx of the course's notes *)
handleMoveNote ==
    /\ Ready
    /\ DetailShown
    /\ \E idx \in DOMAIN currentCourseNotes, direction \in {"up", "down"} :
          MoveNoteStep(selectedCourseId, idx - 1, direction)
    /\ UNCHANGED <<uiVars, aiVars, phase>>

(* "Delete" on a note card *)
handleDeleteNote ==
    /\ Ready
    /\ DetailShown
    /\ \E idx \in DOMAIN currentCourseNotes, confirmed \in BOOLEAN :
          DeleteNoteStep(currentCourseNotes[idx].id, confirmed)
    /\ UNCHANGED <<uiVars, aiVars, phase>>

(* submit of the note form, which is rendered whenever isNoteModalOpen,    *)
(* whatever the view; title and content are `required`                     *)
handleSaveNote ==
    /\ Ready
    /\ isNoteModalOpen
    /\ activeNote = NoNote => uuid.note < UiMaxNotes
    /\ \E title \in Titles \cup {EmptyText}, content \in Contents \cup {EmptyText},
          now \in Times :
          IF required(title) /\ required(content)
          THEN /\ SaveNoteStep(activeNote, selectedCourseId, title, content, now)
               /\ isNoteModalOpen' = FALSE
               /\ activeNote' = NoNote
          ELSE /\ Keep([op |-> "saveNoteBlocked", create |-> activeNote = NoNote,
                        title |-> title, content |-> content])
               /\ UNCHANGED <<isNoteModalOpen, activeNote, uuid>>
    /\ UNCHANGED <<searchQuery, currentView, selectedCourseId, isMaterialModalOpen, targetNoteId,
                   aiVars, phase>>

(* "ADD RESOURCE" on a note card *)
OpenMaterialModal ==
    /\ Ready
    /\ DetailShown
    /\ \E idx \in DOMAIN currentCourseNotes :
          /\ targetNoteId' = currentCourseNotes[idx].id
          /\ Keep([op |-> "openMaterialModal", id |-> currentCourseNotes[idx].id])
    /\ isMaterialModalOpen' = TRUE
    /\ UNCHANGED <<searchQuery, currentView, selectedCourseId, isNoteModalOpen, activeNote,
                   aiVars, uuid, phase>>

CloseMaterialModal ==
    /\ Ready
    /\ isMaterialModalOpen
    /\ isMaterialModalOpen' = FALSE
    /\ Keep([op |-> "closeMaterialModal"])
    /\ UNCHANGED <<searchQuery, currentView, selectedCourseId, isNoteModalOpen, activeNote,
                   targetNoteId, aiVars, uuid, phase>>

(* submit of the resource form, rendered whenever isMaterialModalOpen;     *)
(* name and url are `required`                                             *)
handleAddMaterial ==
    /\ Ready
    /\ isMaterialModalOpen
    /\ uuid.material < UiMaxMaterials
    /\ \E name \in Names \cup {EmptyText}, url \in Urls \cup {EmptyText},
          type \in MaterialTypes, now \in Times :
          IF required(name) /\ required(url)
          THEN /\ AddMaterialStep(selectedCourseId, targetNoteId, name, url, type, now)
               /\ isMaterialModalOpen' = FALSE
               /\ targetNoteId' = Null
          ELSE /\ Keep([op |-> "addMaterialBlocked", name |-> name, url |-> url])
               /\ UNCHANGED <<isMaterialModalOpen, targetNoteId, uuid>>
    /\ UNCHANGED <<searchQuery, currentView, selectedCourseId, isNoteModalOpen, activeNote,
                   aiVars, phase>>

(* trash button of a MaterialItem; the items shown are those attached to a *)
(* note of the selected course                                             *)
handleDeleteMaterial ==
    /\ Ready
    /\ DetailShown
    /\ \E idx \in DOMAIN currentCourseNotes :
          \E j \in DOMAIN MaterialsOfNote(materials, currentCourseNotes[idx].id) :
             DeleteMaterialStep(MaterialsOfNote(materials, currentCourseNotes[idx].id)[j].id)
    /\ UNCHANGED <<uiVars, aiVars, phase>>

(* ------------------------- the store operations ------------------------ *)
(* The same transitions with the UI state as an input: the course that is  *)
(* selected, the note being edited and the note a resource is attached to  *)
(* are any the UI can hold when the form is submitted, which includes ids  *)
(* of entities deleted since the form was opened.                          *)
IssuedCourses == 1..uuid.course
IssuedNotes == 1..uuid.note

addCourse ==
    /\ Ready
    /\ uuid.course < MaxCourses
    /\ \E name \in Names, description \in Descriptions, now \in Times :
          /\ required(name)
          /\ AddCourseStep(name, description, now)
    /\ UNCHANGED <<uiVars, aiVars, phase>>

deleteCourse ==
    /\ Ready
    /\ \E i \in DOMAIN courses, confirmed \in BOOLEAN :
          DeleteCourseStep(courses[i].id, confirmed)
    /\ UNCHANGED <<uiVars, aiVars, phase>>

addNote ==
    /\ Ready
    /\ uuid.note < MaxNotes
    /\ \E selected \in IssuedCourses, title \in Titles, content \in Contents, now \in Times :
          /\ required(title)
          /\ required(content)
          /\ SaveNoteStep(NoNote, selected, title, content, now)
    /\ UNCHANGED <<uiVars, aiVars, phase>>

updateNote ==
    /\ Ready
    /\ \E id \in IssuedNotes, title \in Titles, content \in Contents, now \in Times :
          /\ required(title)
          /\ required(content)
          /\ SaveNoteStep([id |-> id], Null, title, content, now)
    /\ UNCHANGED <<uiVars, aiVars, phase>>

(* an edit that types a new title, at a later time *)
editNote ==
    /\ Ready
    /\ \E id \in IssuedNotes, title \in EditedTitles, content \in Contents,
          now \in EditTimes :
          /\ required(title)
          /\ required(content)
          /\ SaveNoteStep([id |-> id], Null, title, content, now)
    /\ UNCHANGED <<uiVars, aiVars, phase>>

deleteNote ==
    /\ Ready
    /\ \E i \in DOMAIN notes, confirmed \in BOOLEAN :
          DeleteNoteStep(notes[i].id, confirmed)
    /\ UNCHANGED <<uiVars, aiVars, phase>>

moveNote ==
    /\ Ready
    /\ \E i \in DOMAIN courses, direction \in {"up", "down"} :
          \E idx \in DOMAIN NotesOf(notes, courses[i].id) :
             MoveNoteStep(courses[i].id, idx - 1, direction)
    /\ UNCHANGED <<uiVars, aiVars, phase>>

(* handleMoveNote called with any relativeIndex.  With the index of the    *)
(* note undefined and the target defined, the target position is left      *)
(* without a note; the next render reads n.courseId of that position in    *)
(* notes.filter, throws, and the application is unmounted before the save  *)
(* effect runs.                                                            *)
MoveIndices == (0 - 1)..MaxMoveIndex

moveNoteAt ==
    /\ Ready
    /\ \E selected \in IssuedCourses, relativeIndex \in MoveIndices,
          direction \in {"up", "down"} :
          LET moved == MoveNote(notes, selected, relativeIndex, direction)
              op == [op |-> "moveNoteAt", courseId |-> selected,
                     relativeIndex |-> relativeIndex, direction |-> direction]
          IN IF targetGlobalIndex(notes, selected, relativeIndex, direction) = NoIndex
             THEN Keep(op) /\ UNCHANGED phase
             ELSE IF \E i \in DOMAIN moved : moved[i] = HoleNote
                  THEN /\ notes' = moved
                       /\ phase' = "crashed"
                       /\ prev' = Snapshot
                       /\ lastOp' = op
                       /\ UNCHANGED <<courses, materials, storage>>
                  ELSE Commit(courses, moved, materials, {"notes"}, op) /\ UNCHANGED phase
    /\ UNCHANGED <<uiVars, aiVars, uuid>>

addMaterial ==
    /\ Ready
    /\ uuid.material < MaxMaterials
    /\ \E selected \in IssuedCourses, target \in IssuedNotes,
          name \in Names, url \in Urls, type \in MaterialTypes, now \in Times :
          /\ required(name)
          /\ required(url)
          /\ AddMaterialStep(selected, target, name, url, type, now)
    /\ UNCHANGED <<uiVars, aiVars, phase>>

deleteMaterial ==
    /\ Ready
    /\ \E i \in DOMAIN materials : DeleteMaterialStep(materials[i].id)
    /\ UNCHANGED <<uiVars, aiVars, phase>>
(* ------------------------- AI handlers --------------------------------- *)
AiKeep(op) ==
    /\ Keep(op)
    /\ UNCHANGED <<uiVars, uuid, phase>>

(* variant: the slot is left as it is at invocation *)
keepSlot(slot) == slot

(* runAISummary / runAIQuestions before the await: the slot is cleared *)
runAISummaryStart(slot) == AiNull

runAIQuestionsStart(slot) == <<>>

(* the Insight Engine panel shows the results only when aiLoading is false *)
DisplayedSummary == IF aiLoading THEN AiNull ELSE aiSummary

DisplayedQuestions == IF aiLoading THEN <<>> ELSE studyQuestions

(* "Analyze Content" on a note card: runAISummary(note.content);           *)
(* runAIQuestions(note.content); each runs up to its await                 *)
AnalyzeContent ==
    /\ Ready
    /\ DetailShown
    /\ issued < MaxRequests
    /\ \E idx \in DOMAIN currentCourseNotes :
          AiKeep([op |-> "analyze", request |-> issued + 1])
    /\ aiLoading' = TRUE
    /\ aiSummary' = runAISummaryStart(aiSummary)
    /\ studyQuestions' = runAIQuestionsStart(studyQuestions)
    /\ pendingSummary' = pendingSummary \cup {issued + 1}
    /\ pendingQuestions' = pendingQuestions \cup {issued + 1}
    /\ issued' = issued + 1

(* the alert of a catch block; NoAlert when none was raised *)
NoAlert == "none"
SummaryAlert == "Error generating summary."
QuestionsAlert == "Error generating questions."

(* variant: a resolution is dropped when a later request has been issued *)
SummaryResolvedLatestOnly ==
    /\ Ready
    /\ \E k \in pendingSummary, result \in {"text", ""} :
          /\ aiSummary' = IF k # issued THEN aiSummary
                          ELSE IF result # "" THEN SummaryText(k) ELSE FailedSummary
          /\ pendingSummary' = pendingSummary \ {k}
          /\ AiKeep([op |-> "summaryResolved", request |-> k, result |-> result,
                     alert |-> NoAlert])
    /\ aiLoading' = FALSE
    /\ UNCHANGED <<studyQuestions, pendingQuestions, issued>>

(* runAISummary after the await: summarizeNote resolved with response.text *)
(* (possibly empty or undefined)                                           *)
SummaryResolved ==
    /\ Ready
    /\ \E k \in pendingSummary, result \in {"text", ""} :
          /\ aiSummary' = IF result # "" THEN SummaryText(k) ELSE FailedSummary
          /\ pendingSummary' = pendingSummary \ {k}
          /\ AiKeep([op |-> "summaryResolved", request |-> k, result |-> result,
                     alert |-> NoAlert])
    /\ aiLoading' = FALSE
    /\ UNCHANGED <<studyQuestions, pendingQuestions, issued>>

(* runAISummary after the await: summarizeNote rejected; alert, finally *)
SummaryFailed ==
    /\ Ready
    /\ \E k \in pendingSummary :
          /\ pendingSummary' = pendingSummary \ {k}
          /\ AiKeep([op |-> "summaryFailed", request |-> k, alert |-> SummaryAlert])
    /\ aiLoading' = FALSE
    /\ UNCHANGED <<aiSummary, studyQuestions, pendingQuestions, issued>>

(* runAIQuestions after the await: generateStudyQuestions resolved *)
QuestionsResolved ==
    /\ Ready
    /\ \E k \in pendingQuestions, result \in {"list", "[]"} :
          /\ studyQuestions' = IF result = "list" THEN QuestionList(k) ELSE <<>>
          /\ pendingQuestions' = pendingQuestions \ {k}
          /\ AiKeep([op |-> "questionsResolved", request |-> k, result |-> result,
                     alert |-> NoAlert])
    /\ aiLoading' = FALSE
    /\ UNCHANGED <<aiSummary, pendingSummary, issued>>

(* variant: the catch block resets both result slots *)
QuestionsFailedResetsSlots ==
    /\ Ready
    /\ \E k \in pendingQuestions :
          /\ pendingQuestions' = pendingQuestions \ {k}
          /\ AiKeep([op |-> "questionsFailed", request |-> k, alert |-> QuestionsAlert])
    /\ aiLoading' = FALSE
    /\ aiSummary' = AiNull
    /\ studyQuestions' = <<>>
    /\ UNCHANGED <<pendingSummary, issued>>

(* runAIQuestions after the await: generateStudyQuestions rejected (getAI  *)
(* threw, the request failed or JSON.parse threw); alert, finally          *)
QuestionsFailed ==
    /\ Ready
    /\ \E k \in pendingQuestions :
          /\ pendingQuestions' = pendingQuestions \ {k}
          /\ AiKeep([op |-> "questionsFailed", request |-> k, alert |-> QuestionsAlert])
    /\ aiLoading' = FALSE
    /\ UNCHANGED <<aiSummary, studyQuestions, pendingSummary, issued>>

(* the Insight Engine panel and its close button *)
InsightShown == aiSummary # AiNull \/ Len(studyQuestions) > 0 \/ aiLoading

DismissInsight ==
    /\ Ready
    /\ InsightShown
    /\ aiSummary' = AiNull
    /\ studyQuestions' = <<>>
    /\ AiKeep([op |-> "dismissInsight"])
    /\ UNCHANGED <<aiLoading, pendingSummary, pendingQuestions, issued>>

(* ------------------------- specifications ------------------------------ *)
UiNext ==
    \/ Startup
    \/ Reload
    \/ GoCatalog
    \/ handleSearchChange
    \/ OpenAddCourse
    \/ SelectCourse
    \/ handleAddCourse
    \/ handleDeleteCourse
    \/ OpenNewNote
    \/ OpenEditNote
    \/ CloseNoteModal
    \/ handleMoveNote
    \/ handleDeleteNote
    \/ handleSaveNote
    \/ OpenMaterialModal
    \/ CloseMaterialModal
    \/ handleAddMaterial
    \/ handleDeleteMaterial

AiNext ==
    \/ AnalyzeContent
    \/ SummaryResolved
    \/ SummaryFailed
    \/ QuestionsResolved
    \/ QuestionsFailed
    \/ DismissInsight

StoreNext ==
    \/ Startup
    \/ Reload
    \/ addCourse
    \/ deleteCourse
    \/ addNote
    \/ updateNote
    \/ deleteNote
    \/ moveNote
    \/ addMaterial
    \/ deleteMaterial

Spec == Init /\ [][StoreNext]_vars

SpecUi == Init /\ [][UiNext]_vars

(* the AI requests, from a state the UI reaches: one course with one note, *)
(* saved, and its detail view open                                         *)
InitAi ==
    /\ courses = <<NewCourse(1, <<"a">>, <<>>, 1)>>
    /\ notes = <<NewNote(1, 1, <<"t">>, <<"x">>, 1)>>
    /\ materials = <<>>
    /\ currentView = "course-detail"
    /\ selectedCourseId = 1
    /\ searchQuery = <<>>
    /\ isNoteModalOpen = FALSE
    /\ activeNote = NoNote
    /\ isMaterialModalOpen = FALSE
    /\ targetNoteId = Null
    /\ InitialAi
    /\ storage = SaveEffect(courses, notes, materials)
    /\ uuid = [course |-> 1, note |-> 1, material |-> 0]
    /\ phase = "ready"
    /\ lastOp = [op |-> "none"]
    /\ prev = Snapshot

SpecAi == InitAi /\ [][AiNext]_vars

(* creating, editing and deleting notes and resources *)
EditNext ==
    \/ Startup
    \/ addCourse
    \/ addNote
    \/ editNote
    \/ deleteNote
    \/ addMaterial

SpecEdit == Init /\ [][EditNext]_vars

(* startup over what storage can hold: each key missing, malformed, or a   *)
(* collection saved before                                                 *)
StoredItems(rows, keys) == {Missing, Malformed} \cup {Item(Stringify(r, keys)) : r \in rows}

InitLoad ==
    /\ courses = <<>>
    /\ notes = <<>>
    /\ materials = <<>>
    /\ InitialUi
    /\ InitialAi
    /\ \E c \in StoredItems({<<>>, <<NewCourse(1, <<"a">>, <<>>, 1)>>}, CourseKeys),
          n \in StoredItems({<<>>, <<NewNote(1, 1, <<"t">>, <<"x">>, 1)>>}, NoteKeys),
          m \in StoredItems({<<>>, <<NewMaterial(1, 1, 1, <<"a">>, <<"u">>, "Link", 1)>>},
                            MaterialKeys) :
          storage = [uni_courses |-> c, uni_notes |-> n, uni_materials |-> m]
    /\ uuid = [course |-> 1, note |-> 1, material |-> 1]
    /\ phase = "boot"
    /\ lastOp = [op |-> "none"]
    /\ prev = Snapshot

LoadNext == Startup

SpecLoad == InitLoad /\ [][LoadNext]_vars

(* reordering with any index *)
MoveNext ==
    \/ Startup
    \/ addCourse
    \/ addNote
    \/ moveNoteAt

SpecMove == Init /\ [][MoveNext]_vars

(* the catalog filter, from the catalog with a saved list of courses *)
CourseLists ==
    UNION {[1..n -> FilterNames \X FilterDescriptions] : n \in 0..FilterMaxCourses}

InitFilter ==
    /\ \E list \in CourseLists :
          courses = [i \in DOMAIN list |-> NewCourse(i, list[i][1], list[i][2], 1)]
    /\ notes = <<>>
    /\ materials = <<>>
    /\ InitialUi
    /\ InitialAi
    /\ storage = SaveEffect(courses, notes, materials)
    /\ uuid = [course |-> Len(courses), note |-> 0, material |-> 0]
    /\ phase = "ready"
    /\ lastOp = [op |-> "none"]
    /\ prev = Snapshot

search ==
    /\ Ready
    /\ \E query \in Queries : SearchStep(query)

FilterNext == search

SpecFilter == InitFilter /\ [][FilterNext]_vars

(* ========================= properties ================================== *)
IdSeq(seq) == [i \in DOMAIN seq |-> seq[i].id]

Unique(seq) == \A i, j \in DOMAIN seq : i # j => seq[i].id # seq[j].id

Without(seq, Gone(_)) == LET Stays(e) == ~Gone(e) IN SelectSeq(seq, Stays)

DeletedCourses == IssuedCourses \ Ids(courses)

(* C1: deleteCourse(id) removes exactly the course id and the notes and    *)
(* materials whose courseId is id, the rest staying in order; and no note  *)
(* or material whose courseId is a deleted course remains in the store.    *)
C1_CascadeDelete ==
    /\ lastOp.op = "deleteCourse" =>
          LET OfCourse(e) == e.courseId = lastOp.id
              IsCourse(e) == e.id = lastOp.id
          IN /\ courses = Without(prev.courses, IsCourse)
             /\ notes = Without(prev.notes, OfCourse)
             /\ materials = Without(prev.materials, OfCourse)
    /\ \A i \in DOMAIN notes : notes[i].courseId \notin DeletedCourses
    /\ \A i \in DOMAIN materials : materials[i].courseId \notin DeletedCourses

(* the step of deleteCourse alone *)
DeleteCourseExact ==
    lastOp.op = "deleteCourse" =>
       LET OfCourse(e) == e.courseId = lastOp.id
           IsCourse(e) == e.id = lastOp.id
       IN /\ courses = Without(prev.courses, IsCourse)
          /\ notes = Without(prev.notes, OfCourse)
          /\ materials = Without(prev.materials, OfCourse)

(* C2: a note or material is created with the courseId of a course that is *)
(* in the store when it is created.                                        *)
C2_CreatedUnderExistingCourse ==
    lastOp.op \in {"addNote", "addMaterial"} => lastOp.courseId \in Ids(courses)

(* C3: moveNote is a no-op for the first note moved up and the last note   *)
(* moved down; otherwise it exchanges the notes at the global positions of *)
(* the course's notes relativeIndex and relativeIndex -/+ 1 and leaves      *)
(* every other position as it was.                                         *)
Rank(ns, c, k) == Cardinality({m \in 1..(k - 1) : ns[m].courseId = c})

PositionOf(ns, c, r) == CHOOSE k \in DOMAIN ns : ns[k].courseId = c /\ Rank(ns, c, k) = r

CountOf(ns, c) == Cardinality({k \in DOMAIN ns : ns[k].courseId = c})

C3_MoveNoteSwaps ==
    lastOp.op = "moveNote" =>
       LET c == lastOp.courseId
           r == lastOp.relativeIndex
           up == lastOp.direction = "up"
           old == prev.notes
       IN IF (up /\ r = 0) \/ (~up /\ r = CountOf(old, c) - 1)
          THEN notes = old
          ELSE LET i == PositionOf(old, c, r)
                   j == PositionOf(old, c, IF up THEN r - 1 ELSE r + 1)
               IN /\ Len(notes) = Len(old)
                  /\ notes[i] = old[j]
                  /\ notes[j] = old[i]
                  /\ \A k \in DOMAIN old \ {i, j} : notes[k] = old[k]

(* a swap over a note of another course lying between the two *)
C3_Witness ==
    /\ lastOp.op = "moveNote"
    /\ \E i, k, j \in DOMAIN notes :
          /\ i < k /\ k < j
          /\ notes[i].courseId = lastOp.courseId
          /\ notes[j].courseId = lastOp.courseId
          /\ notes[k].courseId # lastOp.courseId
          /\ notes[i] = prev.notes[j]
          /\ notes[j] = prev.notes[i]
          /\ notes[i] # notes[j]

(* C4: the order of the notes of a course c is unchanged by addCourse,     *)
(* updateNote, addMaterial, deleteMaterial, by deleteNote of a note of     *)
(* another course, deleteCourse of another course and moveNote on another  *)
(* course; addNote appends the new note after all existing ones.           *)
C4_OrderPreserved ==
    \A c \in IssuedCourses :
       LET before == IdSeq(NotesOf(prev.notes, c))
           after == IdSeq(NotesOf(notes, c))
       IN CASE lastOp.op \in {"addCourse", "updateNote", "addMaterial", "deleteMaterial"} ->
                  after = before
            [] lastOp.op = "addNote" ->
                  /\ IdSeq(notes) = Append(IdSeq(prev.notes), lastOp.id)
                  /\ after = IF lastOp.courseId = c THEN Append(before, lastOp.id) ELSE before
            [] lastOp.op = "deleteNote" ->
                  lastOp.id \notin Ids(NotesOf(prev.notes, c)) => after = before
            [] lastOp.op = "deleteCourse" -> lastOp.id # c => after = before
            [] lastOp.op = "moveNote" -> lastOp.courseId # c => after = before
            [] OTHER -> TRUE

(* a note is edited in a course whose notes were reordered before *)
C4_Witness ==
    /\ lastOp.op = "updateNote"
    /\ \E i, j \in DOMAIN notes :
          /\ i < j
          /\ notes[i].courseId = notes[j].courseId
          /\ notes[i].id > notes[j].id
          /\ notes[i].id = lastOp.id

(* C5: ids are unique in each collection, and no operation gives an entity *)
(* another id: the ids of a collection are those it had before, plus the   *)
(* id of the entity the operation created.                                 *)
Created(kind) == IF lastOp.op = kind THEN {lastOp.id} ELSE {}

C5_UniqueIds ==
    /\ Unique(courses)
    /\ Unique(notes)
    /\ Unique(materials)
    /\ Ids(courses) \subseteq Ids(prev.courses) \cup Created("addCourse")
    /\ Ids(notes) \subseteq Ids(prev.notes) \cup Created("addNote")
    /\ Ids(materials) \subseteq Ids(prev.materials) \cup Created("addMaterial")
    /\ lastOp.op = "updateNote" => IdSeq(notes) = IdSeq(prev.notes)

C5_Witness ==
    /\ lastOp.op = "addMaterial"
    /\ Len(courses) = 2
    /\ Len(notes) >= 2
    /\ Len(materials) = 2
    /\ uuid.note > Len(notes)

(* C6: whenever the application is idle, the three blobs are the           *)
(* serializations of the in-memory courses, notes and materials.           *)
C6_StorageInSync ==
    phase = "ready" =>
       /\ storage.uni_courses = Item(Stringify(courses, CourseKeys))
       /\ storage.uni_notes = Item(Stringify(notes, NoteKeys))
       /\ storage.uni_materials = Item(Stringify(materials, MaterialKeys))

C6_Witness ==
    /\ phase = "ready"
    /\ lastOp.op = "addMaterial"
    /\ Len(storage.uni_materials.text) = Len(prev.storage.uni_materials.text) + 1
    /\ Len(storage.uni_notes.text) >= 1

(* C7: a restart ends with the in-memory collections equal to what was     *)
(* saved, entity for entity and field for field, in the same order, and    *)
(* with storage holding the same blobs.                                    *)
SameEntities(a, b, keys) ==
    /\ Len(a) = Len(b)
    /\ \A i \in DOMAIN a : \A x \in DOMAIN keys : Get(a[i], keys[x]) = Get(b[i], keys[x])

C7_RoundTrip ==
    lastOp.op = "reload" =>
       /\ SameEntities(courses, prev.courses, CourseKeys)
       /\ SameEntities(notes, prev.notes, NoteKeys)
       /\ SameEntities(materials, prev.materials, MaterialKeys)
       /\ storage = prev.storage

C7_Witness ==
    /\ lastOp.op = "reload"
    /\ Len(courses) = 2
    /\ Len(notes) >= 2
    /\ Len(materials) >= 1
    /\ \E i, j \in DOMAIN notes : i < j /\ notes[i].id > notes[j].id

(* C8: the loading indicator is true while a summary request or a          *)
(* questions request is pending.                                           *)
C8_LoadingWhilePending ==
    (pendingSummary \cup pendingQuestions) # {} => aiLoading

(* C9: while a request is pending, the displayed result is not that of a   *)
(* request issued before it.                                               *)
C9_NoStaleResult ==
    /\ \A k \in pendingSummary : \A j \in 1..(k - 1) : DisplayedSummary # SummaryText(j)
    /\ \A k \in pendingQuestions : \A j \in 1..(k - 1) : DisplayedQuestions # QuestionList(j)

(* C10: invoking the two requests empties the summary slot and the         *)
(* questions slot in the step of the invocation.                           *)
C10_ClearedAtInvocation ==
    lastOp.op = "analyze" => aiSummary = AiNull /\ studyQuestions = <<>>

(* a summary was shown and an earlier summary request was still pending *)
C10_Witness ==
    /\ lastOp.op = "analyze"
    /\ prev.aiSummary # AiNull
    /\ prev.pendingSummary # {}
    /\ Len(prev.studyQuestions) > 0
(* C11: for the two calls of one trigger, the failure of one call leaves   *)
(* the slot of the other as it was, and a call that succeeds puts its      *)
(* result in its slot whether or not the other call has failed before: a   *)
(* summary s with failed questions is in the summary slot once both have   *)
(* completed, and symmetrically.                                           *)
C11_FailureLeavesOtherResult ==
    /\ lastOp.op = "questionsFailed" => aiSummary = prev.aiSummary
    /\ lastOp.op = "summaryFailed" => studyQuestions = prev.studyQuestions
    /\ (lastOp.op = "summaryResolved" /\ lastOp.result = "text"
           /\ lastOp.request \notin prev.pendingQuestions)
          => aiSummary = SummaryText(lastOp.request)
    /\ (lastOp.op = "questionsResolved" /\ lastOp.result = "list"
           /\ lastOp.request \notin prev.pendingSummary)
          => studyQuestions = QuestionList(lastOp.request)
    /\ (lastOp.op = "questionsFailed" /\ lastOp.request \notin pendingSummary
           /\ prev.aiSummary = SummaryText(lastOp.request))
          => aiSummary = SummaryText(lastOp.request)
    /\ (lastOp.op = "summaryFailed" /\ lastOp.request \notin pendingQuestions
           /\ prev.studyQuestions = QuestionList(lastOp.request))
          => studyQuestions = QuestionList(lastOp.request)

(* one trigger: its summary succeeded, then its questions call failed *)
C11_Witness ==
    /\ lastOp.op = "questionsFailed"
    /\ issued = 1
    /\ pendingSummary = {}
    /\ pendingQuestions = {}
    /\ aiSummary = SummaryText(1)
    /\ studyQuestions = <<>>

(* C12: when an AI call fails (it rejects, or the summary comes back       *)
(* without text, the case the code reports as "Failed to generate          *)
(* summary."), an alert is raised, loading is false, the slot of the call  *)
(* is empty, and courses, notes, materials and the three blobs are as      *)
(* before.                                                                 *)
SummaryCallFailed ==
    \/ lastOp.op = "summaryFailed"
    \/ lastOp.op = "summaryResolved" /\ lastOp.result = ""

C12_FailureHandled ==
    /\ SummaryCallFailed =>
          /\ lastOp.alert # NoAlert
          /\ ~aiLoading
          /\ aiSummary = AiNull
    /\ lastOp.op = "questionsFailed" =>
          /\ lastOp.alert # NoAlert
          /\ ~aiLoading
          /\ studyQuestions = <<>>
    /\ (SummaryCallFailed \/ lastOp.op = "questionsFailed") =>
          /\ courses = prev.courses
          /\ notes = prev.notes
          /\ materials = prev.materials
          /\ storage = prev.storage

(* the part of C12 about rejected calls only *)
C12_RejectedCallHandled ==
    /\ lastOp.op = "summaryFailed" =>
          lastOp.alert # NoAlert /\ ~aiLoading /\ aiSummary = AiNull
    /\ lastOp.op = "questionsFailed" =>
          lastOp.alert # NoAlert /\ ~aiLoading /\ studyQuestions = <<>>

(* C17: a successful resolution is written to its slot when it arrives,    *)
(* also when a later request has been issued: once every summary request   *)
(* has completed the slot holds the result of the one that resolved last.  *)
C17_LastResolvedWins ==
    /\ (lastOp.op = "summaryResolved" /\ lastOp.result = "text")
          => aiSummary = SummaryText(lastOp.request)
    /\ (lastOp.op = "questionsResolved" /\ lastOp.result = "list")
          => studyQuestions = QuestionList(lastOp.request)

(* request 2 resolved first and request 1, issued earlier, resolved last *)
C17_Witness ==
    /\ lastOp.op = "summaryResolved"
    /\ lastOp.request = 1
    /\ issued >= 2
    /\ pendingSummary = {}
    /\ prev.aiSummary = SummaryText(2)
    /\ aiSummary = SummaryText(1)
(* C13: filteredCourses is the whole course list, in store order, when the *)
(* query is empty or only whitespace; for every other query it is, in      *)
(* store order, exactly the courses whose name or description contains the *)
(* query as a substring, letters compared without regard to case.          *)
SameLetter(x, y) ==
    \/ x = y
    \/ {x, y} = {"a", "A"}
    \/ {x, y} = {"b", "B"}

Occurs(text, query) ==
    \E offset \in 0..(Len(text) - Len(query)) :
       \A j \in DOMAIN query : SameLetter(text[offset + j], query[j])

Blank(query) == \A i \in DOMAIN query : query[i] = " "

Matching(cs, query) ==
    LET Hit(c) == Occurs(c.name, query) \/ Occurs(c.description, query)
    IN SelectSeq(cs, Hit)

C13_FilterByQuery ==
    filteredCourses = IF Blank(searchQuery) THEN courses ELSE Matching(courses, searchQuery)

(* C13 as amended: the query is taken without its leading and trailing     *)
(* whitespace.                                                             *)
Stripped(query) ==
    LET inked == {i \in DOMAIN query : query[i] # " "}
        first == CHOOSE i \in inked : \A j \in inked : i <= j
        last == CHOOSE i \in inked : \A j \in inked : j <= i
    IN IF inked = {} THEN <<>> ELSE SubSeq(query, first, last)

C13_FilterByStrippedQuery ==
    filteredCourses =
       IF Blank(searchQuery) THEN courses ELSE Matching(courses, Stripped(searchQuery))

(* a query with whitespace around and inside it and a letter in the other  *)
(* case selects the second of two courses only                             *)
C13_Witness ==
    /\ lastOp.op = "search"
    /\ Len(courses) = 2
    /\ searchQuery = <<" ", "B", "A">>
    /\ IdSeq(filteredCourses) = <<2>>
(* C15: a create submitted with an empty required field (course name, note *)
(* title, note content, material url) changes nothing: courses, notes,     *)
(* materials and the three blobs are as before.                            *)
EmptyCreate ==
    \/ lastOp.op \in {"addCourse", "addCourseBlocked"} /\ lastOp.name = EmptyText
    \/ /\ lastOp.op = "addNote" \/ (lastOp.op = "saveNoteBlocked" /\ lastOp.create)
       /\ lastOp.title = EmptyText \/ lastOp.content = EmptyText
    \/ lastOp.op \in {"addMaterial", "addMaterialBlocked"} /\ lastOp.url = EmptyText

C15_EmptyCreateAborted ==
    EmptyCreate =>
       /\ courses = prev.courses
       /\ notes = prev.notes
       /\ materials = prev.materials
       /\ storage = prev.storage

(* the resource form of a saved note is submitted without a url *)
C15_Witness ==
    /\ lastOp.op = "addMaterialBlocked"
    /\ lastOp.url = EmptyText
    /\ lastOp.name # EmptyText
    /\ Len(notes) = 1
    /\ isMaterialModalOpen
(* C14: updateNote(id, title, content) gives the note with that id the new *)
(* title, content and updatedAt and leaves its id, courseId and position,  *)
(* every other note, the courses and the materials as they were; when no   *)
(* note has that id the three collections keep their content.              *)
C14_UpdateInPlace ==
    lastOp.op = "updateNote" =>
       /\ courses = prev.courses
       /\ materials = prev.materials
       /\ Len(notes) = Len(prev.notes)
       /\ \A i \in DOMAIN prev.notes :
             IF prev.notes[i].id = lastOp.id
             THEN notes[i] = [id |-> prev.notes[i].id, courseId |-> prev.notes[i].courseId,
                              title |-> lastOp.title, content |-> lastOp.content,
                              updatedAt |-> lastOp.now]
             ELSE notes[i] = prev.notes[i]
       /\ lastOp.id \notin Ids(prev.notes) => notes = prev.notes

(* the first of three notes gets a new title and time *)
C14_Witness ==
    /\ lastOp.op = "updateNote"
    /\ Len(notes) = 3
    /\ notes[1].id = lastOp.id
    /\ notes[1].title # prev.notes[1].title
    /\ notes[1].updatedAt # prev.notes[1].updatedAt
    /\ Len(materials) >= 1

(* the edited note was deleted before the edit was saved *)
C14_WitnessNotFound ==
    /\ lastOp.op = "updateNote"
    /\ lastOp.id \notin Ids(prev.notes)
    /\ Len(notes) >= 1

(* C16: deleteNote(id) removes the note with that id and nothing else: the *)
(* other notes stay in their order, and courses and materials are as       *)
(* before, the materials whose noteId is id included.                      *)
C16_DeleteNoteOnly ==
    lastOp.op = "deleteNote" =>
       LET IsNote(n) == n.id = lastOp.id
       IN /\ notes = Without(prev.notes, IsNote)
          /\ courses = prev.courses
          /\ materials = prev.materials

(* the second of three notes is deleted and a resource attached to it stays *)
C16_Witness ==
    /\ lastOp.op = "deleteNote"
    /\ Len(prev.notes) = 3
    /\ prev.notes[2].id = lastOp.id
    /\ Len(notes) = 2
    /\ \E i \in DOMAIN materials : Get(materials[i], "noteId") = lastOp.id
C19_MoveIsPermutation ==
    lastOp.op = "moveNoteAt" =>
       /\ Len(notes) = Len(prev.notes)
       /\ \A i \in DOMAIN notes : notes[i] # HoleNote
       /\ {notes[i] : i \in DOMAIN notes} = {prev.notes[i] : i \in DOMAIN prev.notes}

(* the part of C19 about the indices of the course's notes *)
C19_InRangeIsPermutation ==
    (lastOp.op = "moveNoteAt" /\ lastOp.relativeIndex >= 0
       /\ lastOp.relativeIndex < CountOf(prev.notes, lastOp.courseId)) =>
       /\ Len(notes) = Len(prev.notes)
       /\ {notes[i] : i \in DOMAIN notes} = {prev.notes[i] : i \in DOMAIN prev.notes}
====
